---------------------------- MODULE Spec2Model ----------------------------
(***************************************************************************)
(* RC5 (antonio-dropulic/RC5): the key schedule (substitute_key) and the   *)
(* block transform (encrypt_block / decrypt_block) of src/core/mod.rs,     *)
(* with the sizes of src/core/consts.rs and the cipher instance of         *)
(* src/block_cipher.rs.                                                    *)
(*                                                                         *)
(* A Block and a Key are sequences of bytes (0..255).  Array indices are   *)
(* the source's (0-based); Idx reads one.                                  *)
(***************************************************************************)
EXTENDS Integers, Sequences, FiniteSets, TLC

VARIABLES cfg, pc, key, key_table, sched, call

vars == <<cfg, pc, key, key_table, sched, call>>

---------------------------------------------------------------------------
(* Bounds of the model. *)

\* Round counts 0..MaxRounds are explored (ROUNDS may be 0..255).
MaxRounds == 2

\* Key sizes 0..MaxKeySize bytes are explored (KEY_SIZE may be 0..255).
MaxKeySize == 6

---------------------------------------------------------------------------
(* Word arithmetic (the Word abstraction the core is generic over).         *)
(* A Word of w bits is the sequence of its w/16 half-words (0..65535),     *)
(* least significant first, so that every word size is exact.              *)

\* The allowed word sizes in bits.
WordBits == {16, 32, 64}

\* One more than the largest half-word.
Radix == 2 ^ 16

\* The half-words of a word of w bits.
Halves(w) == w \div 16

\* W::Bytes
Bytes(w) == w \div 8

\* W::ZERO
ZERO(w) == [i \in 1..Halves(w) |-> 0]

\* u8 -> W (key[i].into()): zero extension.
into(byte, w) == [i \in 1..Halves(w) |-> IF i = 1 THEN byte ELSE 0]

\* W::THREE and W::EIGHT, the two fixed rotation amounts.
THREE(w) == into(3, w)

EIGHT(w) == into(8, w)

\* W::from_le_bytes: bytes 2i-2 and 2i-1 (0-based) make half-word i, low byte first.
from_le_bytes(bytes) ==
    [i \in 1..(Len(bytes) \div 2) |-> bytes[2 * i - 1] + 256 * bytes[2 * i]]

\* Byte k (0-based, least significant first) of a word.
ByteOf(x, k) ==
    IF k % 2 = 0 THEN x[(k \div 2) + 1] % 256 ELSE x[(k \div 2) + 1] \div 256

\* W::to_le_bytes
to_le_bytes(x) == [k \in 1..(2 * Len(x)) |-> ByteOf(x, k - 1)]

\* A word from its hexadecimal literal, given as bytes most significant first.
Literal(bytes) ==
    from_le_bytes([k \in 1..Len(bytes) |-> bytes[Len(bytes) + 1 - k]])

\* word::p(): Odd((e - 2) * 2^w)
P(w) ==
    CASE w = 16 -> Literal(<<\Hb7, \He1>>)
      [] w = 32 -> Literal(<<\Hb7, \He1, \H51, \H63>>)
      [] w = 64 -> Literal(<<\Hb7, \He1, \H51, \H62, \H8a, \Hed, \H2a, \H6b>>)

\* word::q(): Odd((phi - 1) * 2^w)
Q(w) ==
    CASE w = 16 -> Literal(<<\H9e, \H37>>)
      [] w = 32 -> Literal(<<\H9e, \H37, \H79, \Hb9>>)
      [] w = 64 -> Literal(<<\H9e, \H37, \H79, \Hb9, \H7f, \H4a, \H7c, \H15>>)

\* The half-words i.. of x + y + c (c: the carry into half-word i); the carry
\* out of the top half-word is dropped.
RECURSIVE AddFrom(_, _, _, _)
AddFrom(x, y, i, c) ==
    IF i > Len(x) THEN <<>>
    ELSE <<(x[i] + y[i] + c) % Radix>>
         \o AddFrom(x, y, i + 1, (x[i] + y[i] + c) \div Radix)

\* The carry out of the top half-word of x + y + c.
RECURSIVE CarryOut(_, _, _, _)
CarryOut(x, y, i, c) ==
    IF i > Len(x) THEN c
    ELSE CarryOut(x, y, i + 1, (x[i] + y[i] + c) \div Radix)

\* The half-words i.. of x - y - c (c: the borrow from half-word i); the borrow
\* out of the top half-word is dropped.
RECURSIVE SubFrom(_, _, _, _)
SubFrom(x, y, i, c) ==
    IF i > Len(x) THEN <<>>
    ELSE <<(x[i] - y[i] - c + Radix) % Radix>>
         \o SubFrom(x, y, i + 1, IF x[i] - y[i] - c < 0 THEN 1 ELSE 0)

\* Word::wrapping_add: addition modulo 2^w.
wrapping_add(x, y) == AddFrom(x, y, 1, 0)

\* Word::wrapping_sub: subtraction modulo 2^w.
wrapping_sub(x, y) == SubFrom(x, y, 1, 0)

\* Exclusive or of two half-words.
RECURSIVE Xor(_, _)
Xor(m, n) ==
    IF m = 0 THEN n
    ELSE IF n = 0 THEN m
    ELSE ((m + n) % 2) + 2 * Xor(m \div 2, n \div 2)

\* The half-words i.. of x xor y.
RECURSIVE XorFrom(_, _, _)
XorFrom(x, y, i) ==
    IF i > Len(x) THEN <<>> ELSE <<Xor(x[i], y[i])>> \o XorFrom(x, y, i + 1)

\* BitXor::bitxor
bitxor(x, y) == XorFrom(x, y, 1)

\* The value of the half-words i, i-1, .., 1 of n, modulo m (acc: those above i).
RECURSIVE ModFrom(_, _, _, _)
ModFrom(n, i, m, acc) ==
    IF i = 0 THEN acc ELSE ModFrom(n, i - 1, m, (acc * Radix + n[i]) % m)

\* The value of the word n modulo m (m <= 64).
WordMod(n, m) == ModFrom(n, Len(n), m, 0)

\* The half-words i.. of x rotated left by q whole half-words and t bits
\* (0 <= t < 16): half-word i takes the low 16 - t bits of half-word i - q and
\* the high t bits of half-word i - q - 1, indices modulo the length.
RECURSIVE RotateFrom(_, _, _, _)
RotateFrom(x, q, t, i) ==
    IF i > Len(x) THEN <<>>
    ELSE << (x[((i - 1 - q + Len(x)) % Len(x)) + 1] % (2 ^ (16 - t))) * (2 ^ t)
            + x[((i - 2 - q + 2 * Len(x)) % Len(x)) + 1] \div (2 ^ (16 - t)) >>
         \o RotateFrom(x, q, t, i + 1)

\* x rotated left by s bits, 0 <= s < w.
RotateLeftBy(x, s) == RotateFrom(x, s \div 16, s % 16, 1)

\* A faulty rotation: the amount is not reduced, and an amount of w or more
\* shifts every bit out.
rotate_left_unmasked(x, n) ==
    IF n = into(WordMod(n, 16 * Len(x)), 16 * Len(x))
    THEN RotateLeftBy(x, WordMod(n, 16 * Len(x)))
    ELSE ZERO(16 * Len(x))

\* Word::rotate_left(self, n: Self): the amount is a word, taken modulo w.
rotate_left(x, n) == RotateLeftBy(x, WordMod(n, 16 * Len(x)))

\* Word::rotate_right(self, n: Self): the amount is a word, taken modulo w.
rotate_right(x, n) ==
    RotateLeftBy(x, (16 * Len(x) - WordMod(n, 16 * Len(x))) % (16 * Len(x)))

---------------------------------------------------------------------------
(* Sizes (src/core/consts.rs). *)

\* expanded_key_table::SIZE
expanded_key_table_SIZE(rounds) == 2 * (rounds + 1)

\* key_as_words::SIZE
key_as_words_SIZE(key_bytes, w) == (key_bytes + Bytes(w) - 1) \div Bytes(w)

\* block::BYTES
block_BYTES(w) == Bytes(w) * 2

\* max of two lengths (std::cmp::max as used by mix_in).
max(m, n) == IF m >= n THEN m ELSE n

\* array[i] with the source's 0-based index.  An index out of range panics: the
\* caller records the panic and discards what it computed from the placeholder.
Idx(array, i) ==
    IF i < Len(array) THEN array[i + 1]
    ELSE IF Len(array) > 0 THEN array[1] ELSE <<>>

---------------------------------------------------------------------------
(* Block transform (src/core/mod.rs).  Each function returns its result    *)
(* with a log of what it did: the table indices it read, in order (reads), *)
(* the rotations it performed (rots: the word x, the amount n, the result  *)
(* out), and whether it panicked on an index out of range.                 *)

\* One rotation, as logged.
Rot(x, n, out) == [x |-> x, n |-> n, out |-> out]

\* words_from_block: (a, b) = the low and the high half, little-endian.
words_from_block(block, w) ==
    << from_le_bytes(SubSeq(block, 1, Bytes(w))),
       from_le_bytes(SubSeq(block, Bytes(w) + 1, Len(block))) >>

\* block_from_words: a into the low half, b into the high half, little-endian.
block_from_words(a, b) == to_le_bytes(a) \o to_le_bytes(b)

\* A faulty round of encryption: the second half rotates by, and mixes in, the
\* value a had before this round instead of the updated one.
EncryptRound_stale_a(st, table) ==
    LET i  == st.i
        ra == rotate_left(bitxor(st.a, st.b), st.b)
        a  == wrapping_add(ra, Idx(table, 2 * i))
        rb == rotate_left(bitxor(st.b, st.a), st.a)
        b  == wrapping_add(rb, Idx(table, 2 * i + 1))
    IN  [a |-> a, b |-> b, i |-> i + 1,
         reads |-> st.reads \o <<2 * i, 2 * i + 1>>,
         rots  |-> st.rots \o << Rot(bitxor(st.a, st.b), st.b, ra),
                                 Rot(bitxor(st.b, st.a), st.a, rb) >>]

\* One round of encrypt_block's loop, i in 1..=Rounds.
EncryptRound(st, table) ==
    LET i  == st.i
        ra == rotate_left(bitxor(st.a, st.b), st.b)
        a  == wrapping_add(ra, Idx(table, 2 * i))
        rb == rotate_left(bitxor(st.b, a), a)
        b  == wrapping_add(rb, Idx(table, 2 * i + 1))
    IN  [a |-> a, b |-> b, i |-> i + 1,
         reads |-> st.reads \o <<2 * i, 2 * i + 1>>,
         rots  |-> st.rots \o << Rot(bitxor(st.a, st.b), st.b, ra),
                                 Rot(bitxor(st.b, a), a, rb) >>]

\* A faulty loop of encryption: one round too many (for i in 1..=Rounds + 1).
RECURSIVE EncryptRounds_one_more(_, _, _)
EncryptRounds_one_more(st, table, rounds) ==
    IF st.i > rounds + 1 THEN st
    ELSE EncryptRounds_one_more(EncryptRound(st, table), table, rounds)

\* encrypt_block's loop: for i in 1..=Rounds
RECURSIVE EncryptRounds(_, _, _)
EncryptRounds(st, table, rounds) ==
    IF st.i > rounds THEN st
    ELSE EncryptRounds(EncryptRound(st, table), table, rounds)

\* A faulty round of decryption: both halves rotate before they subtract.
DecryptRound_rotate_first(st, table) ==
    LET i  == st.i
        rb == rotate_right(st.b, st.a)
        b  == bitxor(wrapping_sub(rb, Idx(table, 2 * i + 1)), st.a)
        ra == rotate_right(st.a, b)
        a  == bitxor(wrapping_sub(ra, Idx(table, 2 * i)), b)
    IN  [a |-> a, b |-> b, i |-> i - 1,
         reads |-> st.reads \o <<2 * i + 1, 2 * i>>,
         rots  |-> st.rots \o << Rot(st.b, st.a, rb), Rot(st.a, b, ra) >>]

\* One round of decrypt_block's loop, i in (1..=Rounds).rev().
DecryptRound(st, table) ==
    LET i  == st.i
        sb == wrapping_sub(st.b, Idx(table, 2 * i + 1))
        rb == rotate_right(sb, st.a)
        b  == bitxor(rb, st.a)
        sa == wrapping_sub(st.a, Idx(table, 2 * i))
        ra == rotate_right(sa, b)
        a  == bitxor(ra, b)
    IN  [a |-> a, b |-> b, i |-> i - 1,
         reads |-> st.reads \o <<2 * i + 1, 2 * i>>,
         rots  |-> st.rots \o << Rot(sb, st.a, rb), Rot(sa, b, ra) >>]

\* A faulty loop of decryption: the rounds in encryption's order (no .rev()).
RECURSIVE DecryptRounds_forward(_, _, _)
DecryptRounds_forward(st, table, last) ==
    IF st.i > last THEN [st EXCEPT !.i = 0]
    ELSE DecryptRounds_forward([DecryptRound(st, table) EXCEPT !.i = st.i + 1],
                               table, last)

DecryptRounds_no_rev(st, table) ==
    DecryptRounds_forward([st EXCEPT !.i = 1], table, st.i)

\* decrypt_block's loop: for i in (1..=Rounds).rev()
RECURSIVE DecryptRounds(_, _)
DecryptRounds(st, table) ==
    IF st.i < 1 THEN st
    ELSE DecryptRounds(DecryptRound(st, table), table)

\* What a transform returns: the output block (none after a panic) and its log.
Transformed(st, table) ==
    LET panicked == \E k \in 1..Len(st.reads) : st.reads[k] >= Len(table)
    IN  [out      |-> IF panicked THEN <<>> ELSE block_from_words(st.a, st.b),
         reads    |-> st.reads,
         rots     |-> st.rots,
         panicked |-> panicked]

\* encrypt_block::<W, Rounds>(block, key)
encrypt_block(block, table, w, rounds) ==
    LET ab == words_from_block(block, w)
        st == [a |-> wrapping_add(ab[1], Idx(table, 0)),
               b |-> wrapping_add(ab[2], Idx(table, 1)),
               i |-> 1, reads |-> <<0, 1>>, rots |-> <<>>]
    IN  Transformed(EncryptRounds(st, table, rounds), table)

\* decrypt_block::<W, Rounds>(block, key)
decrypt_block(block, table, w, rounds) ==
    LET ab == words_from_block(block, w)
        st == DecryptRounds([a |-> ab[1], b |-> ab[2], i |-> rounds,
                             reads |-> <<>>, rots |-> <<>>], table)
        b  == wrapping_sub(st.b, Idx(table, 1))
        a  == wrapping_sub(st.a, Idx(table, 0))
    IN  Transformed([a |-> a, b |-> b, reads |-> st.reads \o <<1, 0>>,
                     rots |-> st.rots], table)

---------------------------------------------------------------------------
(* Key schedule (src/core/mod.rs). *)

\* One step of key_into_words's loop, i in (0..KeySize).rev():
\*   key_as_words[i / u] = key_as_words[i / u].rotate_left(EIGHT) + key[i].into()
\* The `+` is the plain one: overflow records whether it ever exceeded the word
\* (a panic in a debug build, a wrap in a release build), low_zero whether the
\* low byte of the rotated word was zero at every step.
PackStep(st, k, i, w) ==
    LET j       == i \div Bytes(w)
        rotated == rotate_left(Idx(st.L, j), EIGHT(w))
        byte    == into(k[i + 1], w)
    IN  IF j >= Len(st.L) THEN [st EXCEPT !.panicked = TRUE]
        ELSE [st EXCEPT !.L[j + 1] = wrapping_add(rotated, byte),
                        !.overflow = st.overflow \/ CarryOut(rotated, byte, 1, 0) = 1,
                        !.low_zero = st.low_zero /\ ByteOf(rotated, 0) = 0]

\* A faulty loop of key_into_words: the bytes in ascending order (no .rev()).
RECURSIVE PackFrom_no_rev(_, _, _, _)
PackFrom_no_rev(st, k, i, w) ==
    IF i < 0 \/ st.panicked THEN st
    ELSE PackFrom_no_rev(PackStep(st, k, Len(k) - 1 - i, w), k, i - 1, w)

\* key_into_words's loop, from i down to 0.
RECURSIVE PackFrom(_, _, _, _)
PackFrom(st, k, i, w) ==
    IF i < 0 \/ st.panicked THEN st
    ELSE PackFrom(PackStep(st, k, i, w), k, i - 1, w)

\* key_into_words::<W, KeySize>(key)
key_into_words(k, w) ==
    PackFrom([L |-> [j \in 1..key_as_words_SIZE(Len(k), w) |-> ZERO(w)],
              overflow |-> FALSE, low_zero |-> TRUE, panicked |-> FALSE],
             k, Len(k) - 1, w)

\* initialize_expanded_key_table's loop, with i = Len(table):
\*   for i in 1..len { table[i] = table[i - 1] + Q }
RECURSIVE InitFrom(_, _, _)
InitFrom(table, len, w) ==
    IF Len(table) >= len THEN table
    ELSE InitFrom(Append(table, wrapping_add(table[Len(table)], Q(w))), len, w)

\* initialize_expanded_key_table::<W, Rounds>()
initialize_expanded_key_table(w, rounds) ==
    InitFrom(<<P(w)>>, expanded_key_table_SIZE(rounds), w)

\* One iteration of mix_in's loop.
MixStep(st, w) ==
    LET si == st.expanded_key_index
        li == st.key_as_words_index
        s  == rotate_left(wrapping_add(wrapping_add(Idx(st.key_table, si), st.a), st.b),
                          THREE(w))
        a  == s
        x  == wrapping_add(wrapping_add(Idx(st.key_as_words, li), a), st.b)
        n  == wrapping_add(a, st.b)
        l  == rotate_left(x, n)
        b  == l
    IN  IF si >= Len(st.key_table) \/ li >= Len(st.key_as_words)
        THEN [st EXCEPT !.panicked = TRUE]
        ELSE [st EXCEPT !.key_table[si + 1] = s,
                        !.key_as_words[li + 1] = l,
                        !.a = a,
                        !.b = b,
                        !.expanded_key_index = (si + 1) % Len(st.key_table),
                        !.key_as_words_index = (li + 1) % Len(st.key_as_words),
                        !.cursors = Append(st.cursors, <<si, li>>),
                        !.rots = Append(st.rots, Rot(x, n, l))]

\* mix_in's loop (for _ in 0..n), with `left` iterations to go.  A panic ends it.
RECURSIVE MixLoop(_, _, _)
MixLoop(st, left, w) ==
    IF left = 0 \/ st.panicked THEN st
    ELSE MixLoop(MixStep(st, w), left - 1, w)

\* The number of iterations of mix_in's loop.
MixIterations(table, words) == 3 * max(Len(words), Len(table))

\* mix_in::<W, Rounds, KeySize>(key_table, key_as_words): the mixed table (none
\* after a panic), with the cursors of every completed iteration and the
\* data-dependent rotation of each.
mix_in(table, words, w) ==
    LET st == MixLoop([key_table |-> table, key_as_words |-> words,
                       a |-> ZERO(w), b |-> ZERO(w),
                       expanded_key_index |-> 0, key_as_words_index |-> 0,
                       cursors |-> <<>>, rots |-> <<>>, panicked |-> FALSE],
                      MixIterations(table, words), w)
    IN  [key_table |-> IF st.panicked THEN <<>> ELSE st.key_table,
         cursors   |-> st.cursors,
         rots      |-> st.rots,
         panicked  |-> st.panicked]

\* substitute_key::<W, Rounds, KeySize>(key): the expanded key table, with what
\* the schedule did on the way (words: the packed key).
substitute_key(k, w, rounds) ==
    LET packed == key_into_words(k, w)
        mixed  == mix_in(initialize_expanded_key_table(w, rounds), packed.L, w)
    IN  [key_table |-> mixed.key_table,
         panicked  |-> packed.panicked \/ mixed.panicked,
         words     |-> packed.L,
         overflow  |-> packed.overflow,
         low_zero  |-> packed.low_zero,
         cursors   |-> mixed.cursors,
         rots      |-> mixed.rots]

---------------------------------------------------------------------------
(* Configurations and inputs. *)

\* impl_rc5! {w = u32, r = 12, b = 16}
NominalBits == 32

NominalRounds == 12

NominalKeySize == 16

Nominal == [w |-> NominalBits, r |-> NominalRounds, b |-> NominalKeySize]

\* The configurations explored: every word size with few rounds and short keys,
\* and the nominal one.
Configs ==
    [w : WordBits, r : 0..MaxRounds, b : 0..MaxKeySize] \cup {Nominal}

\* Keys of n bytes: all zero, all ones, ascending, descending, scattered.
TestKeys(n) ==
    { [i \in 1..n |-> 0],
      [i \in 1..n |-> 255],
      [i \in 1..n |-> i],
      [i \in 1..n |-> 256 - i],
      [i \in 1..n |-> (i * 73 + 29) % 256] }

\* Blocks of n bytes: all zero, all ones, ascending, scattered.
TestBlocks(n) ==
    { [i \in 1..n |-> 0],
      [i \in 1..n |-> 255],
      [i \in 1..n |-> i],
      [i \in 1..n |-> (i * 151 + 57) % 256] }

---------------------------------------------------------------------------
(* The cipher instance (src/block_cipher.rs): created from a key, then     *)
(* asked to encrypt and decrypt blocks, then dropped.  pc is where the     *)
(* instance is: "new" (no table yet), "ready", "panicked" (the key         *)
(* schedule panicked: there is no instance) or "dropped".  call is the     *)
(* last transform call, sched what the key schedule did.                   *)

NoSchedule == [words |-> <<>>, overflow |-> FALSE, low_zero |-> TRUE,
               cursors |-> <<>>, rots |-> <<>>]

NoCall == [op |-> "none", input |-> <<>>, out |-> <<>>, reads |-> <<>>, rots |-> <<>>]

Init ==
    /\ cfg \in Configs
    /\ pc = "new"
    /\ key = <<>>
    /\ key_table = <<>>
    /\ sched = NoSchedule
    /\ call = NoCall

\* KeyInit::new(key): key_table = substitute_key(key)
RC5_new(k) ==
    /\ pc = "new"
    /\ LET sk == substitute_key(k, cfg.w, cfg.r)
       IN  /\ key_table' = sk.key_table
           /\ pc' = IF sk.panicked THEN "panicked" ELSE "ready"
           /\ sched' = [words |-> sk.words, overflow |-> sk.overflow,
                        low_zero |-> sk.low_zero, cursors |-> sk.cursors,
                        rots |-> sk.rots]
    /\ key' = k
    /\ UNCHANGED <<cfg, call>>

\* What a transform call leaves behind.
Called(op, block, res) ==
    [op |-> op, input |-> block, out |-> res.out, reads |-> res.reads, rots |-> res.rots]

\* A faulty encrypt_block of the instance: it erases the table once it is done.
RC5_encrypt_block_erasing(block) ==
    /\ pc = "ready"
    /\ call' = Called("encrypt", block, encrypt_block(block, key_table, cfg.w, cfg.r))
    /\ key_table' = [i \in 1..Len(key_table) |-> ZERO(cfg.w)]
    /\ UNCHANGED <<cfg, pc, key, sched>>

\* RC5::encrypt_block(&self, block)
RC5_encrypt_block(block) ==
    /\ pc = "ready"
    /\ call' = Called("encrypt", block, encrypt_block(block, key_table, cfg.w, cfg.r))
    /\ UNCHANGED <<cfg, pc, key, key_table, sched>>

\* RC5::decrypt_block(&self, block)
RC5_decrypt_block(block) ==
    /\ pc = "ready"
    /\ call' = Called("decrypt", block, decrypt_block(block, key_table, cfg.w, cfg.r))
    /\ UNCHANGED <<cfg, pc, key, key_table, sched>>

\* Drop::drop(&mut self) (feature "zeroize"): the table is zeroed as the
\* instance goes away.
RC5_drop ==
    /\ pc = "ready"
    /\ pc' = "dropped"
    /\ key_table' = [i \in 1..Len(key_table) |-> ZERO(cfg.w)]
    /\ UNCHANGED <<cfg, key, sched, call>>

Next ==
    \/ \E k \in TestKeys(cfg.b) : RC5_new(k)
    \/ \E block \in TestBlocks(block_BYTES(cfg.w)) : RC5_encrypt_block(block)
    \/ \E block \in TestBlocks(block_BYTES(cfg.w)) : RC5_decrypt_block(block)
    \/ RC5_drop

Spec == Init /\ [][Next]_vars

---------------------------------------------------------------------------
(* The block transform on its own: encrypt_block and decrypt_block are     *)
(* public functions of the core, called here with tables of any words, not *)
(* only those the key schedule produces.                                   *)

\* The word of w bits with every bit set.
Ones(w) == [i \in 1..Halves(w) |-> Radix - 1]

\* Words of w bits: zero, one, all ones, and the two magic constants.
TestWords(w) == {ZERO(w), into(1, w), Ones(w), P(w), Q(w)}

\* Tables of t words: one word throughout, two words alternating, the
\* schedule's initial table P + i*Q, and the words 1, 2, .., t.
TestTables(w, t) ==
    { [i \in 1..t |-> IF i % 2 = 1 THEN x ELSE y] : x, y \in TestWords(w) }
    \cup { InitFrom(<<P(w)>>, t, w), [i \in 1..t |-> into(i, w)] }

\* The round counts explored: few rounds, and the nominal count.
TestRounds == 0..MaxRounds \cup {NominalRounds}

InitCore ==
    /\ cfg \in [w : WordBits, r : TestRounds, b : {0}]
    /\ pc = "ready"
    /\ key = <<>>
    /\ key_table \in TestTables(cfg.w, expanded_key_table_SIZE(cfg.r))
    /\ sched = NoSchedule
    /\ call = NoCall

NextCore ==
    \/ \E block \in TestBlocks(block_BYTES(cfg.w)) : RC5_encrypt_block(block)
    \/ \E block \in TestBlocks(block_BYTES(cfg.w)) : RC5_decrypt_block(block)

SpecCore == InitCore /\ [][NextCore]_vars

---------------------------------------------------------------------------
(* Properties. *)

\* The words (a, b) of the last call's input block.
InputWords == words_from_block(call.input, cfg.w)

\* decrypt_block and encrypt_block applied to a block under the instance's table.
Decrypted(block) == decrypt_block(block, key_table, cfg.w, cfg.r).out

Encrypted(block) == encrypt_block(block, key_table, cfg.w, cfg.r).out

\* C2: under any table S of t = 2(r+1) words, decrypting what encrypt_block
\* returned gives the block back, and encrypting what decrypt_block returned
\* gives the block back; so encrypt_block(., S) maps distinct blocks to
\* distinct blocks.
C2_TwoSidedInverse ==
    /\ call.op = "encrypt" => Decrypted(call.out) = call.input
    /\ call.op = "decrypt" => Encrypted(call.out) = call.input
    /\ call.op = "encrypt" =>
         \A other \in TestBlocks(block_BYTES(cfg.w)) :
            Encrypted(other) = call.out => other = call.input

\* A block was decrypted over at least one round and encrypts back to itself.
C2_Witness ==
    /\ call.op = "decrypt"
    /\ cfg.r >= 1
    /\ call.out # call.input
    /\ Encrypted(call.out) = call.input

\* C5: with r = 0, encrypt_block returns (A + S[0], B + S[1]) and
\* decrypt_block returns (A - S[0], B - S[1]), modulo 2^w, and S[0] and S[1]
\* are the only table entries read.
C5_ZeroRounds ==
    cfg.r = 0 =>
        /\ call.op = "encrypt" =>
             /\ call.out = block_from_words(wrapping_add(InputWords[1], key_table[1]),
                                            wrapping_add(InputWords[2], key_table[2]))
             /\ call.reads = <<0, 1>>
        /\ call.op = "decrypt" =>
             /\ call.out = block_from_words(wrapping_sub(InputWords[1], key_table[1]),
                                            wrapping_sub(InputWords[2], key_table[2]))
             /\ call.reads = <<1, 0>>
        /\ call.rots = <<>>

\* A block was encrypted with no rounds under a table that changes it.
C5_Witness ==
    /\ cfg.r = 0
    /\ call.op = "encrypt"
    /\ call.reads = <<0, 1>>
    /\ call.out # call.input
    /\ key_table[1] # key_table[2]

\* C10: encrypt_block reads the table entries 0, 1, .., 2r+1 in this order,
\* each once, and decrypt_block reads 2r+1, 2r, .., 0 in this order, each
\* once; no index outside 0 .. t-1 is read.
C10_TableReadOrder ==
    LET t == expanded_key_table_SIZE(cfg.r)
    IN  /\ call.op = "encrypt" => call.reads = [k \in 1..t |-> k - 1]
        /\ call.op = "decrypt" => call.reads = [k \in 1..t |-> t - k]
        /\ \A k \in 1..Len(call.reads) : call.reads[k] \in 0..(t - 1)
        /\ Len(key_table) = t

\* A block was decrypted over several rounds, reading the whole table.
C10_Witness ==
    /\ call.op = "decrypt"
    /\ cfg.r >= 2
    /\ Len(call.reads) = expanded_key_table_SIZE(cfg.r)
    /\ call.reads[1] = 2 * cfg.r + 1

\* The nominal configuration's key and block of zero bytes.
ZeroKey == [i \in 1..NominalKeySize |-> 0]

ZeroBlock == [i \in 1..block_BYTES(NominalBits) |-> 0]

\* C4: RC5-32/12/16 with the key of 16 zero bytes encrypts the block of zero
\* bytes to 21 A5 DB EE 15 4B 8F 6D.
C4_KnownAnswer ==
    (cfg = Nominal /\ key = ZeroKey /\ call.op = "encrypt" /\ call.input = ZeroBlock)
        => call.out = <<\H21, \HA5, \HDB, \HEE, \H15, \H4B, \H8F, \H6D>>

\* The zero block was encrypted under the zero key in the nominal configuration.
C4_Witness ==
    /\ cfg = Nominal
    /\ key = ZeroKey
    /\ call.op = "encrypt"
    /\ call.input = ZeroBlock
    /\ Len(call.out) = 8

\* Bit j (0-based, least significant first) of a word.
Bit(x, j) == (x[(j \div 16) + 1] \div (2 ^ (j % 16))) % 2

\* The amount n reduced modulo w, as a word.
Reduced(n) == into(WordMod(n, cfg.w), cfg.w)

\* A logged left rotation is the rotation by the reduced amount: bit j of the
\* result is bit j - (n mod w) of x, indices modulo w.
LeftRotationReduced(rot) ==
    /\ rotate_left(rot.x, rot.n) = rotate_left(rot.x, Reduced(rot.n))
    /\ \A j \in 0..(cfg.w - 1) :
          Bit(rot.out, j) = Bit(rot.x, (j - WordMod(rot.n, cfg.w) + cfg.w) % cfg.w)

\* A logged right rotation is the rotation by the reduced amount: bit j of the
\* result is bit j + (n mod w) of x, indices modulo w.
RightRotationReduced(rot) ==
    /\ rotate_right(rot.x, rot.n) = rotate_right(rot.x, Reduced(rot.n))
    /\ \A j \in 0..(cfg.w - 1) :
          Bit(rot.out, j) = Bit(rot.x, (j + WordMod(rot.n, cfg.w)) % cfg.w)

C7_TableReadOnly ==
    [][(pc = "ready" /\ pc' = "ready") =>
          /\ key_table' = key_table
          /\ Len(key_table') = expanded_key_table_SIZE(cfg.r)
          /\ Len(call'.out) = block_BYTES(cfg.w)]_vars

\* After a call the table is still the one the key schedule returned.
C7_Witness ==
    /\ pc = "ready"
    /\ call.op = "decrypt"
    /\ Len(call.out) = block_BYTES(cfg.w)
    /\ key_table = substitute_key(key, cfg.w, cfg.r).key_table
    /\ Len(key_table) = expanded_key_table_SIZE(cfg.r)

\* C9: byte-to-word packing never overflows and is little-endian: at every
\* step the rotated word has a zero low byte, so the plain addition of the
\* key byte stays below 2^w; at the end byte k of word j is key[j*u + k], or
\* zero where the key has no such byte.
C9_KeyPacking ==
    pc # "new" =>
        /\ sched.low_zero
        /\ ~sched.overflow
        /\ Len(sched.words) = key_as_words_SIZE(cfg.b, cfg.w)
        /\ \A j \in 0..(Len(sched.words) - 1) : \A k \in 0..(Bytes(cfg.w) - 1) :
              ByteOf(sched.words[j + 1], k)
                 = IF j * Bytes(cfg.w) + k < cfg.b
                   THEN key[j * Bytes(cfg.w) + k + 1] ELSE 0

\* A key of distinct bytes that ends inside a word was packed into several words.
C9_Witness ==
    /\ pc = "ready"
    /\ cfg.b % Bytes(cfg.w) # 0
    /\ Len(sched.words) >= 2
    /\ \A i, j \in 1..Len(key) : i # j => key[i] # key[j]
    /\ ByteOf(sched.words[Len(sched.words)], Bytes(cfg.w) - 1) = 0
    /\ ByteOf(sched.words[1], 1) = key[2]

\* How many iterations of key mixing updated slot i of S, and slot j of L.
UpdatesOfS(i) == Cardinality({k \in 1..Len(sched.cursors) : sched.cursors[k][1] = i})

UpdatesOfL(j) == Cardinality({k \in 1..Len(sched.cursors) : sched.cursors[k][2] = j})

\* What C8 says of a key schedule over t table words and c key words.
MixingCovers(t, c) ==
    /\ Len(sched.cursors) = 3 * max(t, c)
    /\ \A k \in 0..(3 * max(t, c) - 1) : sched.cursors[k + 1] = <<k % t, k % c>>
    /\ \A i \in 0..(t - 1) : UpdatesOfS(i) >= 3
    /\ \A j \in 0..(c - 1) : UpdatesOfL(j) >= 3
    /\ t >= c => \A i \in 0..(t - 1) : UpdatesOfS(i) = 3
    /\ c >= t => \A j \in 0..(c - 1) : UpdatesOfL(j) = 3

\* C8: the key-mixing loop runs exactly 3 * max(t, c) iterations, with the
\* cursors k mod t and k mod c at iteration k, so every slot of S and of L is
\* updated at least three times, and every slot of the longer one exactly
\* three times.
C8_MixingIterations ==
    pc # "new" =>
        MixingCovers(expanded_key_table_SIZE(cfg.r), key_as_words_SIZE(cfg.b, cfg.w))

\* C8 for keys of one byte or more.
C8_MixingIterations_KeyedOnly ==
    (pc # "new" /\ cfg.b >= 1) =>
        MixingCovers(expanded_key_table_SIZE(cfg.r), key_as_words_SIZE(cfg.b, cfg.w))

\* C1: for every key K of the configured length and every block X, the key
\* schedule returns a table S = substitute_key(K), and
\* decrypt_block(encrypt_block(X, S), S) = X.
C1_InverseLaw ==
    /\ pc # "new" => pc \in {"ready", "dropped"}
    /\ (pc = "ready" /\ call.op = "encrypt") => Decrypted(call.out) = call.input

\* C1 for keys of one byte or more.
C1_InverseLaw_KeyedOnly ==
    /\ (pc # "new" /\ cfg.b >= 1) => pc \in {"ready", "dropped"}
    /\ (pc = "ready" /\ call.op = "encrypt") => Decrypted(call.out) = call.input

\* C3: with b = 0 the key schedule does not fail: L is one zero word, the
\* table returned has t = 2(r+1) words, and the inverse law holds under it.
C3_EmptyKey ==
    (cfg.b = 0 /\ pc # "new") =>
        /\ pc \in {"ready", "dropped"}
        /\ sched.words = <<ZERO(cfg.w)>>
        /\ Len(key_table) = expanded_key_table_SIZE(cfg.r)
        /\ (pc = "ready" /\ call.op = "encrypt") => Decrypted(call.out) = call.input

\* What the code does with b = 0: L has no word at all, and key mixing panics
\* on key_as_words[0] in its first iteration; no table is returned.
C3_EmptyKeyPanics ==
    (cfg.b = 0 /\ pc # "new") =>
        /\ pc = "panicked"
        /\ sched.words = <<>>
        /\ sched.cursors = <<>>
        /\ key_table = <<>>


=============================================================================
